---- MODULE Spec2Model ----
(***************************************************************************)
(* Model of webapp/cron_parser.py: CronParser.parse_schedule (the spec's   *)
(* describe) and CronParser.calculate_next_run (the spec's nextRun).       *)
(*                                                                         *)
(* A Python str is a sequence of one-character strings, so that strip,     *)
(* split, startswith, the @every regular expression, int(), zfill and the  *)
(* f-strings are computed character by character.  A Python call returns   *)
(* a record [exc, val]: exc = "none" and val the returned value, or exc    *)
(* the name of the exception that propagates out of the call.              *)
(*                                                                         *)
(* The job store (webapp/init_db.py), its writers sync_jobs.py and         *)
(* db_logger.py and the rate-limited trigger of webapp/app.py follow; each *)
(* of them runs one SQLite transaction or one request at a time, which is  *)
(* one step here.                                                          *)
(***************************************************************************)
EXTENDS Integers, Sequences, FiniteSets, TLC

VARIABLES schedule_str, from_time, description, next_run

\* jobs and job_executions are the tables of init_db.py; synced_config is the
\* configuration of the last sync that returned 0; runs is the position of
\* each job-script run; clock is the wall clock in seconds; rate_limit is
\* api_trigger_job.rate_limit; launched lists the scripts started by
\* subprocess.Popen; last_op is the last call made and what it returned
VARIABLES jobs, job_executions, synced_config, runs, clock, rate_limit,
          launched, last_op

parserVars == <<schedule_str, from_time, description, next_run>>

storeVars == <<jobs, job_executions, synced_config, runs>>

triggerVars == <<rate_limit, launched>>

vars ==
    <<schedule_str, from_time, description, next_run, jobs, job_executions,
      synced_config, runs, clock, rate_limit, launched, last_op>>

(***************************************************************************)
(* Characters and the str methods the parser uses.                         *)
(***************************************************************************)
Whitespace == {" ", "\t"}

Digits == {"0", "1", "2", "3", "4", "5", "6", "7", "8", "9"}

DigitVal(c) ==
    CASE c = "0" -> 0 [] c = "1" -> 1 [] c = "2" -> 2 [] c = "3" -> 3
      [] c = "4" -> 4 [] c = "5" -> 5 [] c = "6" -> 6 [] c = "7" -> 7
      [] c = "8" -> 8 [] c = "9" -> 9

DigitChar(d) ==
    CASE d = 0 -> "0" [] d = 1 -> "1" [] d = 2 -> "2" [] d = 3 -> "3"
      [] d = 4 -> "4" [] d = 5 -> "5" [] d = 6 -> "6" [] d = 7 -> "7"
      [] d = 8 -> "8" [] d = 9 -> "9"

Drop(s, n) == IF n >= Len(s) THEN <<>> ELSE SubSeq(s, n + 1, Len(s))

RECURSIVE lstrip(_)
lstrip(s) ==
    IF s # <<>> /\ Head(s) \in Whitespace THEN lstrip(Tail(s)) ELSE s

RECURSIVE rstrip(_)
rstrip(s) ==
    IF s # <<>> /\ s[Len(s)] \in Whitespace
    THEN rstrip(SubSeq(s, 1, Len(s) - 1))
    ELSE s

\* str.strip(): leading and trailing whitespace removed
strip(s) == rstrip(lstrip(s))

\* str.startswith(prefix)
startswith(s, prefix) ==
    /\ Len(s) >= Len(prefix)
    /\ SubSeq(s, 1, Len(prefix)) = prefix

\* length of the longest prefix of s made of characters of set cs
RECURSIVE RunLen(_, _)
RunLen(s, cs) ==
    IF s # <<>> /\ Head(s) \in cs THEN 1 + RunLen(Tail(s), cs) ELSE 0

\* str.split(): the maximal runs of non-whitespace characters, in order
RECURSIVE split(_)
split(s) ==
    LET t == lstrip(s)
        n == IF t = <<>> THEN 0
             ELSE CHOOSE k \in 1..Len(t) :
                    /\ \A i \in 1..k : t[i] \notin Whitespace
                    /\ (k = Len(t) \/ t[k + 1] \in Whitespace)
    IN  IF t = <<>> THEN <<>>
        ELSE <<SubSeq(t, 1, n)>> \o split(Drop(t, n))

\* str.isdigit(): non-empty and every character a digit
isdigit(s) == s # <<>> /\ \A i \in 1..Len(s) : s[i] \in Digits

\* value of a non-empty string of digits
RECURSIVE DigitsValue(_)
DigitsValue(s) ==
    IF s = <<>> THEN 0
    ELSE 10 * DigitsValue(SubSeq(s, 1, Len(s) - 1)) + DigitVal(s[Len(s)])

\* int(str): an optional sign followed by digits; anything else raises
\* ValueError
IntLiteral(s) ==
    \/ isdigit(s)
    \/ s # <<>> /\ Head(s) \in {"+", "-"} /\ isdigit(Tail(s))

int(s) ==
    IF ~IntLiteral(s) THEN [exc |-> "ValueError", val |-> 0]
    ELSE IF Head(s) = "-" THEN [exc |-> "none", val |-> 0 - DigitsValue(Tail(s))]
    ELSE IF Head(s) = "+" THEN [exc |-> "none", val |-> DigitsValue(Tail(s))]
    ELSE [exc |-> "none", val |-> DigitsValue(s)]

\* str(int) of a natural number, as the f-string {value} renders it
RECURSIVE NatToStr(_)
NatToStr(n) ==
    IF n < 10 THEN <<DigitChar(n)>>
    ELSE NatToStr(n \div 10) \o <<DigitChar(n % 10)>>

\* str.zfill(2)
zfill(s) ==
    IF Len(s) >= 2 THEN s
    ELSE IF s = <<>> THEN <<"0", "0">>
    ELSE IF Head(s) \in {"+", "-"} THEN <<Head(s), "0">>
    ELSE <<"0">> \o s

(***************************************************************************)
(* String literals of cron_parser.py.                                      *)
(***************************************************************************)
StrEveryMinute == <<"E", "v", "e", "r", "y", " ", "m", "i", "n", "u", "t", "e">>
StrEvery == <<"E", "v", "e", "r", "y", " ">>
StrMinute == <<" ", "m", "i", "n", "u", "t", "e">>
StrHour == <<" ", "h", "o", "u", "r">>
StrDay == <<" ", "d", "a", "y">>
StrDailyAt == <<"D", "a", "i", "l", "y", " ", "a", "t", " ">>
StrMonthlyOnDay ==
    <<"M", "o", "n", "t", "h", "l", "y", " ", "o", "n", " ", "d", "a", "y", " ">>
StrAt == <<" ", "a", "t", " ">>
StrCron == <<"C", "r", "o", "n", ":", " ">>
StrInvalidCron ==
    <<"I", "n", "v", "a", "l", "i", "d", " ", "c", "r", "o", "n", " ",
      "s", "y", "n", "t", "a", "x", ":", " ">>
StrInvalidEvery ==
    <<"I", "n", "v", "a", "l", "i", "d", " ", "@", "e", "v", "e", "r", "y", " ",
      "s", "y", "n", "t", "a", "x">>
StrRandom ==
    <<"R", "a", "n", "d", "o", "m", " ", "(", "v", "a", "r", "i", "e", "s", " ",
      "p", "e", "r", " ", "c", "o", "n", "t", "a", "i", "n", "e", "r", " ",
      "s", "t", "a", "r", "t", ")">>
AtEvery == <<"@", "e", "v", "e", "r", "y">>
AtRandom == <<"@", "r", "a", "n", "d", "o", "m">>
StepPrefix == <<"*", "/">>
Star == <<"*">>
Zero == <<"0">>

AtYearly == <<"@", "y", "e", "a", "r", "l", "y">>
AtAnnually == <<"@", "a", "n", "n", "u", "a", "l", "l", "y">>
AtMonthly == <<"@", "m", "o", "n", "t", "h", "l", "y">>
AtWeekly == <<"@", "w", "e", "e", "k", "l", "y">>
AtDaily == <<"@", "d", "a", "i", "l", "y">>
AtMidnight == <<"@", "m", "i", "d", "n", "i", "g", "h", "t">>
AtHourly == <<"@", "h", "o", "u", "r", "l", "y">>

ShortcutKeys ==
    {AtYearly, AtAnnually, AtMonthly, AtWeekly, AtDaily, AtMidnight, AtHourly}

\* CronParser.SHORTCUTS
SHORTCUTS ==
    [k \in ShortcutKeys |->
        CASE k = AtYearly   -> <<"0", " ", "0", " ", "1", " ", "1", " ", "*">>
          [] k = AtAnnually -> <<"0", " ", "0", " ", "1", " ", "1", " ", "*">>
          [] k = AtMonthly  -> <<"0", " ", "0", " ", "1", " ", "*", " ", "*">>
          [] k = AtWeekly   -> <<"0", " ", "0", " ", "*", " ", "*", " ", "0">>
          [] k = AtDaily    -> <<"0", " ", "0", " ", "*", " ", "*", " ", "*">>
          [] k = AtMidnight -> <<"0", " ", "0", " ", "*", " ", "*", " ", "*">>
          [] k = AtHourly   -> <<"0", " ", "*", " ", "*", " ", "*", " ", "*">>]

Return(v) == [exc |-> "none", val |-> v]

RaiseStr(e) == [exc |-> e, val |-> <<>>]

(***************************************************************************)
(* re.search(r'@every\s+(\d+)([mhd])', s): the leftmost position where     *)
(* '@every', one or more whitespace characters, one or more digits and a   *)
(* unit letter follow each other directly.  \s+ and \d+ are greedy and no  *)
(* backtracking into them can help, since the character that must follow   *)
(* is outside the class.                                                   *)
(***************************************************************************)
EveryMatchAt(s) ==
    LET afterKey == Drop(s, Len(AtEvery))
        ws == RunLen(afterKey, Whitespace)
        afterWs == Drop(afterKey, ws)
        nd == RunLen(afterWs, Digits)
        afterDigits == Drop(afterWs, nd)
    IN  IF /\ startswith(s, AtEvery)
           /\ ws >= 1
           /\ nd >= 1
           /\ afterDigits # <<>>
           /\ Head(afterDigits) \in {"m", "h", "d"}
        THEN [found |-> TRUE, value |-> SubSeq(afterWs, 1, nd),
              unit |-> Head(afterDigits)]
        ELSE [found |-> FALSE, value |-> <<>>, unit |-> ""]

\* re.match in place of re.search: the pattern anchored at the start
re_match_every(s) == EveryMatchAt(s)

RECURSIVE re_search_every(_)
re_search_every(s) ==
    IF s = <<>> THEN [found |-> FALSE, value |-> <<>>, unit |-> ""]
    ELSE IF EveryMatchAt(s).found THEN EveryMatchAt(s)
    ELSE re_search_every(Tail(s))

\* the f-string suffix {'s' if value != 1 else ''}
Plural(n) == IF n # 1 THEN <<"s">> ELSE <<>>

\* CronParser._parse_every
_parse_every(s) ==
    LET match == re_search_every(s)
        value == DigitsValue(match.value)
        unit == match.unit
    IN  IF match.found
        THEN IF unit = "m"
             THEN Return(StrEvery \o NatToStr(value) \o StrMinute \o Plural(value))
             ELSE IF unit = "h"
             THEN Return(StrEvery \o NatToStr(value) \o StrHour \o Plural(value))
             ELSE Return(StrEvery \o NatToStr(value) \o StrDay \o Plural(value))
        ELSE Return(StrInvalidEvery)

\* the f-string f"Every {interval} <unit>{'s' if int(interval) != 1 else ''}";
\* int(interval) raises ValueError when interval is no integer literal
EveryStep(interval, unitName) ==
    IF int(interval).exc # "none" THEN RaiseStr(int(interval).exc)
    ELSE Return(StrEvery \o interval \o unitName \o Plural(int(interval).val))

\* _describe_standard_cron with the "Specific time patterns" of lines 107-111
\* tested before the step patterns of lines 94-104
_describe_standard_cron_reordered(s) ==
    LET parts == split(s) IN
    IF Len(parts) # 5 THEN Return(StrInvalidCron \o s)
    ELSE
    LET minute == parts[1]
        hour == parts[2]
        day == parts[3]
        month == parts[4]
        weekday == parts[5]
    IN  IF minute = Star /\ hour = Star THEN Return(StrEveryMinute)
        ELSE IF minute # Star /\ hour # Star /\ day = Star /\ month = Star
                /\ weekday = Star
        THEN Return(StrDailyAt \o zfill(hour) \o <<":">> \o zfill(minute))
        ELSE IF minute # Star /\ hour # Star /\ day # Star /\ month = Star
                /\ weekday = Star
        THEN Return(StrMonthlyOnDay \o day \o StrAt \o zfill(hour) \o <<":">>
                      \o zfill(minute))
        ELSE IF startswith(minute, StepPrefix)
        THEN EveryStep(Drop(minute, 2), StrMinute)
        ELSE IF startswith(hour, StepPrefix) /\ minute = Zero
        THEN EveryStep(Drop(hour, 2), StrHour)
        ELSE IF startswith(day, StepPrefix) /\ minute = Zero /\ hour = Zero
        THEN EveryStep(Drop(day, 2), StrDay)
        ELSE Return(StrCron \o s)

\* CronParser._describe_standard_cron
_describe_standard_cron(s) ==
    LET parts == split(s) IN
    IF Len(parts) # 5 THEN Return(StrInvalidCron \o s)
    ELSE
    LET minute == parts[1]
        hour == parts[2]
        day == parts[3]
        month == parts[4]
        weekday == parts[5]
    IN  IF minute = Star /\ hour = Star THEN Return(StrEveryMinute)
        ELSE IF startswith(minute, StepPrefix)
        THEN EveryStep(Drop(minute, 2), StrMinute)
        ELSE IF startswith(hour, StepPrefix) /\ minute = Zero
        THEN EveryStep(Drop(hour, 2), StrHour)
        ELSE IF startswith(day, StepPrefix) /\ minute = Zero /\ hour = Zero
        THEN EveryStep(Drop(day, 2), StrDay)
        ELSE IF minute # Star /\ hour # Star /\ day = Star /\ month = Star
                /\ weekday = Star
        THEN Return(StrDailyAt \o zfill(hour) \o <<":">> \o zfill(minute))
        ELSE IF minute # Star /\ hour # Star /\ day # Star /\ month = Star
                /\ weekday = Star
        THEN Return(StrMonthlyOnDay \o day \o StrAt \o zfill(hour) \o <<":">>
                      \o zfill(minute))
        ELSE Return(StrCron \o s)

\* parse_schedule without the strip() of line 32
parse_schedule_unstripped(s0) ==
    IF s0 \in ShortcutKeys THEN _describe_standard_cron(SHORTCUTS[s0])
    ELSE IF startswith(s0, AtEvery) THEN _parse_every(s0)
    ELSE IF startswith(s0, AtRandom) THEN Return(StrRandom)
    ELSE _describe_standard_cron(s0)

\* parse_schedule that hands the unstripped string to the standard-cron rules
parse_schedule_echo_original(s0) ==
    LET s == strip(s0) IN
    IF s \in ShortcutKeys THEN _describe_standard_cron(SHORTCUTS[s])
    ELSE IF startswith(s, AtEvery) THEN _parse_every(s)
    ELSE IF startswith(s, AtRandom) THEN Return(StrRandom)
    ELSE _describe_standard_cron(s0)

\* CronParser.parse_schedule
parse_schedule(s0) ==
    LET s == strip(s0) IN
    IF s \in ShortcutKeys THEN _describe_standard_cron(SHORTCUTS[s])
    ELSE IF startswith(s, AtEvery) THEN _parse_every(s)
    ELSE IF startswith(s, AtRandom) THEN Return(StrRandom)
    ELSE _describe_standard_cron(s)

(***************************************************************************)
(* datetime and timedelta.  A datetime is its proleptic ordinal day        *)
(* (date.toordinal()) and its time of day; datetime.max is 9999-12-31.     *)
(***************************************************************************)
MaxOrdinal == 3652059

TimedeltaMaxDays == 999999999

DateTime(o, h, m, s, us) ==
    [ord |-> o, hour |-> h, minute |-> m, second |-> s, microsecond |-> us]

\* stands for from_time=None and for the val of a call that raised
NoneTime == DateTime(0, 0, 0, 0, 0)

RaiseTime(e) == [exc |-> e, val |-> NoneTime]

\* datetime + timedelta(days=days, minutes=mins), mins possibly negative:
\* OverflowError when the timedelta or the resulting date is out of range
Plus(t, days, mins) ==
    LET total == t.hour * 60 + t.minute + mins
        o == t.ord + days + (total \div 1440)
        rest == total % 1440
    IN  IF \/ days + (mins \div 1440) > TimedeltaMaxDays
           \/ days + (mins \div 1440) < 0 - TimedeltaMaxDays
           \/ o < 1
           \/ o > MaxOrdinal
        THEN RaiseTime("OverflowError")
        ELSE Return(DateTime(o, rest \div 60, rest % 60, t.second, t.microsecond))

PlusMinutes(t, n) == Plus(t, 0, n)

\* from_time + timedelta(hours=n)
PlusHours(t, n) == Plus(t, n \div 24, (n % 24) * 60)

PlusDays(t, n) == Plus(t, n, 0)

\* datetime.replace(hour=h, minute=m, second=0, microsecond=0): ValueError
\* when a field is out of its range
Replace(t, h, m) ==
    IF h \notin 0..23 \/ m \notin 0..59 THEN RaiseTime("ValueError")
    ELSE Return(DateTime(t.ord, h, m, 0, 0))

\* a <= b on datetimes
TimeLE(a, b) ==
    \/ a.ord < b.ord
    \/ a.ord = b.ord /\ a.hour < b.hour
    \/ a.ord = b.ord /\ a.hour = b.hour /\ a.minute < b.minute
    \/ /\ a.ord = b.ord /\ a.hour = b.hour /\ a.minute = b.minute
       /\ a.second < b.second
    \/ /\ a.ord = b.ord /\ a.hour = b.hour /\ a.minute = b.minute
       /\ a.second = b.second /\ a.microsecond <= b.microsecond

\* the @every branch without the startswith('@every') test of line 131
NextRunEveryUnguarded(s, t) ==
    LET match == re_search_every(s)
        value == DigitsValue(match.value)
    IN  IF match.found
        THEN [found |-> TRUE,
              result |-> IF match.unit = "m" THEN PlusMinutes(t, value)
                         ELSE IF match.unit = "h" THEN PlusHours(t, value)
                         ELSE PlusDays(t, value)]
        ELSE [found |-> FALSE, result |-> RaiseTime("none")]

\* lines 131-140: the @every branch of calculate_next_run; found = FALSE
\* when control falls through to the shortcut lookup
NextRunEvery(s, t) ==
    LET match == re_search_every(s)
        value == DigitsValue(match.value)
    IN  IF startswith(s, AtEvery) /\ match.found
        THEN [found |-> TRUE,
              result |-> IF match.unit = "m" THEN PlusMinutes(t, value)
                         ELSE IF match.unit = "h" THEN PlusHours(t, value)
                         ELSE PlusDays(t, value)]
        ELSE [found |-> FALSE, result |-> RaiseTime("none")]

\* lines 152-155: "Every N minutes"
NextRunMinuteStep(minute, t) ==
    LET interval == int(Drop(minute, 2)) IN
    IF interval.exc # "none" THEN RaiseTime(interval.exc)
    ELSE LET next == PlusMinutes(t, interval.val) IN
         IF next.exc # "none" THEN next
         ELSE Replace(next.val, next.val.hour, next.val.minute)

\* lines 158-161: "Every hour"
NextRunHourStep(minute, hour, t) ==
    LET interval == int(Drop(hour, 2)) IN
    IF interval.exc # "none" THEN RaiseTime(interval.exc)
    ELSE LET next == PlusHours(t, interval.val) IN
         IF next.exc # "none" THEN next
         ELSE Replace(next.val, next.val.hour, DigitsValue(minute))

\* lines 164-170: "Specific time"
NextRunSpecific(minute, hour, t) ==
    LET next == Replace(t, DigitsValue(hour), DigitsValue(minute)) IN
    IF next.exc # "none" THEN next
    ELSE IF TimeLE(next.val, t) THEN PlusDays(next.val, 1)
    ELSE next

\* CronParser.calculate_next_run with from_time = t
calculate_next_run(s0, t) ==
    IF NextRunEvery(s0, t).found THEN NextRunEvery(s0, t).result
    ELSE
    LET s == IF s0 \in ShortcutKeys THEN SHORTCUTS[s0] ELSE s0
        parts == split(s)
    IN  IF Len(parts) = 5 /\ startswith(parts[1], StepPrefix)
        THEN NextRunMinuteStep(parts[1], t)
        ELSE IF Len(parts) = 5 /\ startswith(parts[2], StepPrefix)
                /\ isdigit(parts[1])
        THEN NextRunHourStep(parts[1], parts[2], t)
        ELSE IF Len(parts) = 5 /\ isdigit(parts[1]) /\ isdigit(parts[2])
        THEN NextRunSpecific(parts[1], parts[2], t)
        ELSE PlusHours(t, 1)

(***************************************************************************)
(* The schedule strings and reference times the calls are applied to.      *)
(***************************************************************************)
\* surrounding whitespace runs have at most MaxPad characters
MaxPad == 1

\* strings with a wrong field count have at most MaxFieldCount fields
MaxFieldCount == 6

RECURSIVE Join(_)
Join(fields) ==
    IF fields = <<>> THEN <<>>
    ELSE IF Len(fields) = 1 THEN fields[1]
    ELSE fields[1] \o <<" ">> \o Join(Tail(fields))

MinuteFields ==
    {Star, Zero, <<"5">>, <<"4", "3">>, <<"6", "0">>, <<"*", "/", "0">>,
     <<"*", "/", "1">>, <<"*", "/", "5">>, <<"*", "/">>, <<"*", "/", "x">>,
     <<"0", ",", "3", "0">>}

HourFields ==
    {Star, Zero, <<"9">>, <<"2", "4">>, <<"*", "/", "0">>, <<"*", "/", "1">>,
     <<"*", "/", "2">>, <<"*", "/", "x">>, <<"6", ",", "1", "8">>}

DayFields ==
    {Star, <<"1", "5">>, <<"*", "/", "1">>, <<"*", "/", "2">>, <<"*", "/">>,
     <<"1", "-", "5">>}

MonthFields == {Star, <<"1">>, <<"j", "a", "n">>}

WeekdayFields == {Star, <<"m", "o", "n">>}

FiveFieldInputs ==
    {Join(<<mi, h, d, mo, w>>) :
        mi \in MinuteFields, h \in HourFields, d \in DayFields,
        mo \in MonthFields, w \in WeekdayFields}

CountFields == {Star, Zero, <<"*", "/", "5">>}

WrongCountInputs ==
    UNION {{Join(f) : f \in [1..n -> CountFields]} :
              n \in (0..MaxFieldCount) \ {5}}

EverySeps == {<<>>, <<" ">>, <<" ", "\t">>, <<" ", "x", " ">>}

EveryDigits ==
    {<<>>, <<"0">>, <<"1">>, <<"2">>, <<"0", "0", "7">>, <<"3", "0">>,
     <<"9", "9", "9", "9", "9", "9", "9">>}

EveryUnits == {<<>>, <<"m">>, <<"h">>, <<"d">>, <<"x">>}

EveryTails ==
    {<<>>, <<"3", "0", "m">>, <<" ", "5", "m">>,
     <<" ", "@", "e", "v", "e", "r", "y", " ", "2", "m">>,
     <<" ", "*", " ", "*", " ", "*">>}

EveryInputs ==
    {AtEvery \o sep \o ds \o u \o tl :
        sep \in EverySeps, ds \in EveryDigits, u \in EveryUnits,
        tl \in EveryTails}

RandomInputs ==
    {AtRandom,
     AtRandom \o <<"x">>,
     AtRandom \o <<" ", "x">>,
     AtRandom \o <<" ", "5", "m">>,
     AtRandom \o <<" ", "*", "/", "5", " ", "*", " ", "*", " ", "*">>,
     AtRandom \o <<" ", "0", " ", "9", " ", "*", " ", "*">>,
     AtRandom \o <<" ", "@", "e", "v", "e", "r", "y", " ", "5", "m">>}

CanonicalStrings == {SHORTCUTS[k] : k \in ShortcutKeys}

\* strings that also occur with whitespace around them
PaddedCores ==
    ShortcutKeys \cup CanonicalStrings \cup RandomInputs \cup
    {AtEvery \o <<" ", "5", "m">>,
     AtEvery \o <<" ", "1", "h", "3", "0", "m">>,
     AtEvery \o <<" ", "x">>,
     AtHourly \o <<"x">>,
     <<"*", "/", "5", " ", "*", " ", "*", " ", "*", " ", "*">>,
     <<"3", "0", " ", "1", "4", " ", "1", "5", " ", "*", " ", "*">>,
     <<"1", " ", "2", " ", "3", " ", "4", " ", "5">>,
     <<"a", " ", "b", " ", "c">>,
     <<>>}

Pads == UNION {[1..n -> Whitespace] : n \in 0..MaxPad}

PaddedInputs == {l \o core \o r : l \in Pads, core \in PaddedCores, r \in Pads}

Inputs ==
    FiveFieldInputs \cup WrongCountInputs \cup EveryInputs \cup RandomInputs
    \cup PaddedInputs

RefTimes ==
    {DateTime(738886, h, m, sus[1], sus[2]) :
        h \in {0, 9, 23}, m \in {0, 59}, sus \in {<<0, 0>>, <<30, 500000>>}}

(***************************************************************************)
(* The job store as init_db.py creates it: both tables empty.  NULL is -1  *)
(* in the integer columns.                                                 *)
(***************************************************************************)
Null == 0 - 1

NameA == <<"a">>

NameB == <<"b">>

\* the default of job.get('name', 'unnamed')
NameUnnamed == <<"u", "n", "n", "a", "m", "e", "d">>

TableNames == {NameA, NameB, NameUnnamed}

NoJob ==
    [present |-> FALSE, schedule |-> <<>>, next_run |-> <<>>,
     status |-> "", last_run |-> Null]

EmptyJobs == [n \in TableNames |-> NoJob]

\* at most MaxRuns job-script runs log their start and end
MaxRuns == 2

Runs == 1..MaxRuns

IdleRun == [pc |-> "idle", job |-> <<>>]

NoOp == [op |-> "none", rc |-> 0, arg |-> <<>>]

StoreInit ==
    /\ jobs = EmptyJobs
    /\ job_executions = <<>>
    /\ synced_config = <<>>
    /\ runs = [r \in Runs |-> IdleRun]
    /\ clock = 0
    /\ rate_limit = <<>>
    /\ launched = <<>>
    /\ last_op = NoOp

(***************************************************************************)
(* The calls.  description and next_run hold the outcome of the last call  *)
(* of parse_schedule and calculate_next_run on schedule_str; exc =         *)
(* "not_called" before the call.                                           *)
(***************************************************************************)
NotCalledStr == [exc |-> "not_called", val |-> <<>>]

NotCalledTime == [exc |-> "not_called", val |-> NoneTime]

Init ==
    /\ schedule_str \in Inputs
    /\ from_time = NoneTime
    /\ description = NotCalledStr
    /\ next_run = NotCalledTime
    /\ StoreInit

\* parser.parse_schedule(schedule_str)
ParseSchedule ==
    /\ description = NotCalledStr
    /\ description' = parse_schedule(schedule_str)
    /\ UNCHANGED <<schedule_str, from_time, next_run>>
    /\ UNCHANGED <<storeVars, triggerVars, clock, last_op>>

\* parser.calculate_next_run(schedule_str, t)
CalculateNextRun(t) ==
    /\ next_run = NotCalledTime
    /\ from_time' = t
    /\ next_run' = calculate_next_run(schedule_str, t)
    /\ UNCHANGED <<schedule_str, description>>
    /\ UNCHANGED <<storeVars, triggerVars, clock, last_op>>

Next ==
    \/ ParseSchedule
    \/ \E t \in RefTimes : CalculateNextRun(t)

Spec == Init /\ [][Next]_vars

(***************************************************************************)
(* Vocabulary of the properties: the shapes of schedule strings and        *)
(* fields, stated on the characters of the string.                         *)
(***************************************************************************)
DescribeCalled == description.exc # "not_called"

NextRunCalled == next_run.exc # "not_called"

Trimmed(s) == strip(s)

FieldsOf(s) == split(s)

HasFiveFields(s) == Len(FieldsOf(s)) = 5

\* '*/N' with N a string of digits
IsStepField(f) ==
    /\ Len(f) >= 3
    /\ f[1] = "*"
    /\ f[2] = "/"
    /\ \A i \in 3..Len(f) : f[i] \in Digits

IsIntegerField(f) == Len(f) >= 1 /\ \A i \in 1..Len(f) : f[i] \in Digits

IsSimpleField(f) == f = Star \/ IsIntegerField(f) \/ IsStepField(f)

StepN(f) == SubSeq(f, 3, Len(f))

PluralS(n) == IF n = 1 THEN <<>> ELSE <<"s">>

TwoDigits(f) == IF Len(f) = 1 THEN <<"0">> \o f ELSE f

(***************************************************************************)
(* C1: describe (parse_schedule) returns a description and never raises,   *)
(* whatever the input string is.  The code raises ValueError on a step     *)
(* field '*/X' whose X is not an integer literal.                          *)
(***************************************************************************)
C1_DescribeNeverRaises == description.exc \in {"not_called", "none"}

(***************************************************************************)
(* C2: nextRun (calculate_next_run) returns a timestamp and never raises,  *)
(* whatever the input string and the reference time are.  The code raises  *)
(* ValueError on '*/X' with X no integer literal and on an hour or minute  *)
(* out of range, and OverflowError on a duration past datetime.max.        *)
(***************************************************************************)
C2_NextRunNeverRaises == next_run.exc \in {"not_called", "none"}

(***************************************************************************)
(* C3: for every shortcut key k, with or without surrounding whitespace,   *)
(* describe(k) equals describe(SHORTCUTS[k]), and it is the standard-cron  *)
(* description of SHORTCUTS[k] (never the @every or @random answer).       *)
(***************************************************************************)
C3_ShortcutDescribedAsCanonical ==
    (DescribeCalled /\ Trimmed(schedule_str) \in ShortcutKeys) =>
        LET canonical == SHORTCUTS[Trimmed(schedule_str)] IN
        /\ description = parse_schedule(canonical)
        /\ description = _describe_standard_cron(canonical)
        /\ description.exc = "none"
        /\ description.val \notin {StrInvalidEvery, StrRandom}

C3_Witness ==
    /\ schedule_str = <<" ">> \o AtHourly \o <<"\t">>
    /\ description = Return(StrCron \o SHORTCUTS[AtHourly])

(***************************************************************************)
(* C4: for a five-field string whose fields are each '*', an integer or    *)
(* '*/N', describe returns the result of the first matching rule of:       *)
(* (a) minute and hour '*' -> 'Every minute'; (b) minute '*/N' -> 'Every   *)
(* N minute(s)'; (c) hour '*/N' and minute '0' -> 'Every N hour(s)';       *)
(* (d) day '*/N' and minute and hour '0' -> 'Every N day(s)'; (e) minute   *)
(* and hour concrete, day, month, weekday '*' -> 'Daily at HH:MM';         *)
(* (f) minute, hour, day concrete, month and weekday '*' -> 'Monthly on    *)
(* day D at HH:MM'; (g) 'Cron: <string>'.  The 's' is omitted exactly when *)
(* N is 1.  "Concrete" is the spec's "not '*'"; <string> is the trimmed    *)
(* string.                                                                 *)
(***************************************************************************)
C4_Domain(s) ==
    /\ HasFiveFields(s)
    /\ \A i \in 1..5 : IsSimpleField(FieldsOf(s)[i])

C4_EveryN(f, unitName) ==
    StrEvery \o StepN(f) \o unitName \o PluralS(DigitsValue(StepN(f)))

C4_Expected(s) ==
    LET f == FieldsOf(s) IN
    IF f[1] = Star /\ f[2] = Star THEN StrEveryMinute
    ELSE IF IsStepField(f[1]) THEN C4_EveryN(f[1], StrMinute)
    ELSE IF IsStepField(f[2]) /\ f[1] = Zero THEN C4_EveryN(f[2], StrHour)
    ELSE IF IsStepField(f[3]) /\ f[1] = Zero /\ f[2] = Zero
    THEN C4_EveryN(f[3], StrDay)
    ELSE IF /\ f[1] # Star /\ f[2] # Star
            /\ f[3] = Star /\ f[4] = Star /\ f[5] = Star
    THEN StrDailyAt \o TwoDigits(f[2]) \o <<":">> \o TwoDigits(f[1])
    ELSE IF /\ f[1] # Star /\ f[2] # Star /\ f[3] # Star
            /\ f[4] = Star /\ f[5] = Star
    THEN StrMonthlyOnDay \o f[3] \o StrAt \o TwoDigits(f[2]) \o <<":">>
           \o TwoDigits(f[1])
    ELSE StrCron \o Trimmed(s)

C4_DescribeRuleOrder ==
    (DescribeCalled /\ C4_Domain(schedule_str)) =>
        description = Return(C4_Expected(schedule_str))

C4_Witness ==
    /\ schedule_str = <<"0", " ", "*", "/", "1", " ", "*", " ", "*", " ", "*">>
    /\ description = Return(StrEvery \o <<"1">> \o StrHour)

(***************************************************************************)
(* C5: for a five-field string in which some field is neither '*', an      *)
(* integer nor '*/N' (a list, a range, a name), describe returns the       *)
(* verbatim fallback 'Cron: <string>', and never a 'Daily at' or 'Monthly  *)
(* on day' sentence built from such a field.  Stated on the calls that     *)
(* return.  The code returns 'Daily at 6,18:43' for '43 6,18 * * *'.       *)
(***************************************************************************)
C5_Domain(s) ==
    /\ HasFiveFields(s)
    /\ \E i \in 1..5 : ~IsSimpleField(FieldsOf(s)[i])

C5_OtherShapesFallBack ==
    (description.exc = "none" /\ C5_Domain(schedule_str)) =>
        /\ description = Return(StrCron \o Trimmed(schedule_str))
        /\ ~startswith(description.val, StrDailyAt)
        /\ ~startswith(description.val, StrMonthlyOnDay)

(***************************************************************************)
(* The @every duration, stated on the characters.  PatternAt: '@every' at  *)
(* position i, then j >= 1 whitespace characters, then k >= 1 digits, then *)
(* a unit letter.  TokenAt: k >= 1 digits at position i followed by a unit *)
(* letter, anywhere.                                                       *)
(***************************************************************************)
Units == {"m", "h", "d"}

PatternAt(s, i, j, k) ==
    /\ i + 6 + j + k <= Len(s)
    /\ SubSeq(s, i, i + 5) = AtEvery
    /\ \A x \in (i + 6)..(i + 5 + j) : s[x] \in Whitespace
    /\ \A x \in (i + 6 + j)..(i + 5 + j + k) : s[x] \in Digits
    /\ s[i + 6 + j + k] \in Units

PatternPlaces(s) ==
    {p \in (1..Len(s)) \X (1..Len(s)) \X (1..Len(s)) :
        PatternAt(s, p[1], p[2], p[3])}

HasPattern(s) == PatternPlaces(s) # {}

FirstPattern(s) ==
    CHOOSE p \in PatternPlaces(s) : \A q \in PatternPlaces(s) : p[1] <= q[1]

PatternN(s) ==
    LET p == FirstPattern(s) IN
    DigitsValue(SubSeq(s, p[1] + 6 + p[2], p[1] + 5 + p[2] + p[3]))

PatternUnit(s) ==
    LET p == FirstPattern(s) IN s[p[1] + 6 + p[2] + p[3]]

\* a token <digits><unit> starting at i, after the leading '@every'
TokenAt(s, i, k) ==
    /\ i > Len(AtEvery)
    /\ i + k <= Len(s)
    /\ \A x \in i..(i + k - 1) : s[x] \in Digits
    /\ s[i + k] \in Units

TokenPlaces(s) ==
    {p \in (1..Len(s)) \X (1..Len(s)) : TokenAt(s, p[1], p[2])}

HasToken(s) == TokenPlaces(s) # {}

FirstToken(s) ==
    CHOOSE p \in TokenPlaces(s) : \A q \in TokenPlaces(s) : p[1] <= q[1]

TokenN(s) ==
    LET p == FirstToken(s) IN DigitsValue(SubSeq(s, p[1], p[1] + p[2] - 1))

TokenUnit(s) == LET p == FirstToken(s) IN s[p[1] + p[2]]

UnitName(u) == IF u = "m" THEN StrMinute ELSE IF u = "h" THEN StrHour ELSE StrDay

EveryText(n, u) == StrEvery \o NatToStr(n) \o UnitName(u) \o PluralS(n)

(***************************************************************************)
(* C6 as claimed: for a string that starts with '@every', if a token       *)
(* <digits><m|h|d> occurs anywhere after '@every', describe returns 'Every *)
(* N minute(s)/hour(s)/day(s)' for the first such token, and 'Invalid      *)
(* @every syntax' otherwise.  Refuted by '@every1m' and '@every x 1m'.     *)
(***************************************************************************)
C6_TokenAnywhere ==
    (DescribeCalled /\ startswith(Trimmed(schedule_str), AtEvery)) =>
        LET s == Trimmed(schedule_str) IN
        description = Return(IF HasToken(s)
                             THEN EveryText(TokenN(s), TokenUnit(s))
                             ELSE StrInvalidEvery)

(***************************************************************************)
(* C6 amended: for a string that starts with '@every' (after trimming), if *)
(* somewhere in it '@every' is directly followed by one or more whitespace *)
(* characters and then directly by <digits><m|h|d>, describe returns       *)
(* 'Every N minute(s)/hour(s)/day(s)' for the first such place, N being    *)
(* the digits read as a number and the 's' omitted exactly when N is 1;    *)
(* otherwise it returns 'Invalid @every syntax'.                           *)
(***************************************************************************)
C6_TokenRightAfterEvery ==
    (DescribeCalled /\ startswith(Trimmed(schedule_str), AtEvery)) =>
        LET s == Trimmed(schedule_str) IN
        description = Return(IF HasPattern(s)
                             THEN EveryText(PatternN(s), PatternUnit(s))
                             ELSE StrInvalidEvery)

C6_Witness ==
    /\ schedule_str = AtEvery \o <<" ", "x", " ", " ", "@", "e", "v", "e", "r", "y",
                                   " ", "2", "m">>
    /\ description = Return(StrEvery \o <<"2">> \o StrMinute \o <<"s">>)

(***************************************************************************)
(* Timestamps of the properties.                                           *)
(***************************************************************************)
\* a is strictly later than b
Later(a, b) ==
    LET ka == <<a.ord, a.hour, a.minute, a.second, a.microsecond>>
        kb == <<b.ord, b.hour, b.minute, b.second, b.microsecond>>
    IN  \E i \in 1..5 : ka[i] > kb[i] /\ \A j \in 1..(i - 1) : ka[j] = kb[j]

\* t plus n minutes, hours or days, time of day carried into the date
Shifted(t, n, u) ==
    LET mins == t.hour * 60 + t.minute
                  + (IF u = "m" THEN n ELSE IF u = "h" THEN n * 60 ELSE 0)
        days == (IF u = "d" THEN n ELSE 0) + (mins \div 1440)
    IN  DateTime(t.ord + days, (mins % 1440) \div 60, mins % 60,
                 t.second, t.microsecond)

OneHourLater(t) == Shifted(t, 1, "h")

(***************************************************************************)
(* C7: for a five-field string whose minute and hour are plain integers,   *)
(* and a reference time T, nextRun returns that hour and minute with zero  *)
(* seconds on T's day when that is strictly after T, and one day later     *)
(* otherwise.  The code raises ValueError for '0 24 * * *' (see C2).       *)
(***************************************************************************)
C7_Domain(s) ==
    /\ HasFiveFields(s)
    /\ IsIntegerField(FieldsOf(s)[1])
    /\ IsIntegerField(FieldsOf(s)[2])

C7_Expected(s, t) ==
    LET h == DigitsValue(FieldsOf(s)[2])
        m == DigitsValue(FieldsOf(s)[1])
        sameDay == DateTime(t.ord, h, m, 0, 0)
    IN  IF Later(sameDay, t) THEN sameDay ELSE DateTime(t.ord + 1, h, m, 0, 0)

C7_SpecificTimeNextRun ==
    (NextRunCalled /\ C7_Domain(schedule_str)) =>
        next_run = Return(C7_Expected(schedule_str, from_time))

(***************************************************************************)
(* C8: for a string that starts with '@every' and carries a duration token *)
(* <digits><unit> (the one the @every pattern finds), and a reference time *)
(* T, nextRun returns exactly T plus N minutes, hours or days, seconds and *)
(* sub-seconds of T preserved.  The code raises OverflowError for          *)
(* '@every 9999999d' (see C2).                                             *)
(***************************************************************************)
C8_Domain(s) == startswith(s, AtEvery) /\ HasPattern(s)

C8_EveryAddsDuration ==
    (NextRunCalled /\ C8_Domain(schedule_str)) =>
        next_run = Return(Shifted(from_time, PatternN(schedule_str),
                                  PatternUnit(schedule_str)))

(***************************************************************************)
(* C9: for a five-field expression that carries a multi-value list, or a   *)
(* day-of-month or day-of-week field other than '*', nextRun returns the   *)
(* fallback T + 1 hour.  Stated on the calls that return.  The code        *)
(* returns the next 09:00 for '0 9 15 * *'.                                *)
(***************************************************************************)
IsListField(f) == \E i \in 1..Len(f) : f[i] = ","

C9_Domain(s) ==
    /\ HasFiveFields(s)
    /\ \/ \E i \in 1..5 : IsListField(FieldsOf(s)[i])
       \/ FieldsOf(s)[3] # Star
       \/ FieldsOf(s)[5] # Star

C9_ConstrainedFallsBack ==
    (next_run.exc = "none" /\ C9_Domain(schedule_str)) =>
        next_run.val = OneHourLater(from_time)

(***************************************************************************)
(* C10 as claimed: for a string that (i) starts with '@every' but contains *)
(* no <digits><m|h|d> token, or (ii) starts with '@random', or (iii) is    *)
(* not a shortcut and does not split into exactly five fields, nextRun     *)
(* returns exactly T + 1 hour.  Refuted by '@every 1m', which is in (iii). *)
(***************************************************************************)
C10_EveryWithoutToken(s) == startswith(s, AtEvery) /\ ~HasToken(s)

C10_Random(s) == startswith(s, AtRandom)

C10_WrongCount(s) == s \notin ShortcutKeys /\ ~HasFiveFields(s)

C10_FallbackOriginal ==
    (/\ NextRunCalled
     /\ \/ C10_EveryWithoutToken(schedule_str)
        \/ C10_Random(schedule_str)
        \/ C10_WrongCount(schedule_str)) =>
        next_run = Return(OneHourLater(from_time))

(***************************************************************************)
(* C10 amended: as claimed, with (iii) narrowed to the strings that are    *)
(* not a shortcut, do not split into exactly five fields and are not an    *)
(* '@every' string whose duration the first step extracts ('@every', then  *)
(* whitespace, then <digits><m|h|d>): for those, and for (i) and (ii),     *)
(* nextRun returns exactly T + 1 hour.                                     *)
(***************************************************************************)
C10_Fallback ==
    (/\ NextRunCalled
     /\ \/ C10_EveryWithoutToken(schedule_str)
        \/ C10_Random(schedule_str)
        \/ C10_WrongCount(schedule_str) /\ ~C8_Domain(schedule_str)) =>
        next_run = Return(OneHourLater(from_time))

C10_Witness ==
    /\ schedule_str = AtRandom \o <<" ", "@", "e", "v", "e", "r", "y", " ", "5", "m">>
    /\ from_time = DateTime(738886, 23, 59, 30, 500000)
    /\ next_run = Return(DateTime(738887, 0, 59, 30, 500000))

(***************************************************************************)
(* C11 as claimed: the fallback sentences echo the original input string   *)
(* verbatim: an input that is not a shortcut, does not start with '@every' *)
(* or '@random' and does not have five fields is described as 'Invalid     *)
(* cron syntax: ' followed by the original string, and an input that       *)
(* reaches the last rule as 'Cron: ' followed by the original string.      *)
(* Refuted by ' a b c' and by '@yearly'.                                   *)
(***************************************************************************)
C11_NoOtherForm(s) ==
    /\ s \notin ShortcutKeys
    /\ ~startswith(s, AtEvery)
    /\ ~startswith(s, AtRandom)
    /\ ~HasFiveFields(s)

C11_LastRuleReached == description.exc = "none" /\ startswith(description.val, StrCron)

C11_EchoesOriginal ==
    /\ (DescribeCalled /\ C11_NoOtherForm(schedule_str)) =>
          description = Return(StrInvalidCron \o schedule_str)
    /\ C11_LastRuleReached => description.val = StrCron \o schedule_str

(***************************************************************************)
(* C11 amended: the fallback sentences echo the input with its surrounding *)
(* whitespace trimmed: an input whose trimmed form is not a shortcut, does *)
(* not start with '@every' or '@random' and does not have five fields is   *)
(* described as 'Invalid cron syntax: ' followed by the trimmed input; an  *)
(* input that reaches the last rule is described as 'Cron: ' followed by   *)
(* the trimmed input, or, when the trimmed input is a shortcut, by the     *)
(* five-field string the shortcut stands for.                              *)
(***************************************************************************)
C11_EchoesTrimmed ==
    LET t == Trimmed(schedule_str) IN
    /\ (DescribeCalled /\ C11_NoOtherForm(t)) =>
          description = Return(StrInvalidCron \o t)
    /\ C11_LastRuleReached =>
          description.val =
              StrCron \o (IF t \in ShortcutKeys THEN SHORTCUTS[t] ELSE t)

C11_Witness ==
    /\ schedule_str = <<"\t", "a", " ", "b", " ", "c", " ">>
    /\ description = Return(StrInvalidCron \o <<"a", " ", "b", " ", "c">>)

(***************************************************************************)
(* C12: a string is classified the same way on every call, by describe and *)
(* by nextRun alike; in particular a string with leading or trailing       *)
(* whitespace is treated as the same form by both.  describe classifies    *)
(* the trimmed string, so each operation must treat schedule_str as it     *)
(* treats the trimmed string.  The code does not trim in nextRun: for      *)
(* ' @every 5m' describe answers 'Every 5 minutes' and nextRun T + 1 hour. *)
(***************************************************************************)
C12_SameFormInBothOperations ==
    /\ DescribeCalled =>
          description = parse_schedule(Trimmed(schedule_str))
    /\ NextRunCalled =>
          next_run = calculate_next_run(Trimmed(schedule_str), from_time)

(***************************************************************************)
(* C16: whenever nextRun returns, the timestamp is strictly later than the *)
(* reference time T, also for the intervals with N = 0.  The code returns  *)
(* T itself for '@every 0m' and T with zeroed seconds for '*/0 * * * *'.   *)
(***************************************************************************)
C16_NextRunAfterReference ==
    next_run.exc = "none" => Later(next_run.val, from_time)

(***************************************************************************)
(* sync_jobs.py.  A job of the configuration is a record whose keys are    *)
(* present or Missing; the whole of sync_jobs_from_config is one SQLite    *)
(* transaction, rolled back when anything in it raises.                    *)
(***************************************************************************)
Missing == <<"<missing>">>

\* job.get(key, default)
get(job, key, default) == IF job[key] = Missing THEN default ELSE job[key]

\* the row the INSERT ... ON CONFLICT(name) DO UPDATE leaves for one job:
\* status and last_run are set by the column defaults of a new row only
Upsert(tbl, job) ==
    LET name == get(job, "name", NameUnnamed)
        schedule == get(job, "schedule", Join(<<Star, Star, Star, Star, Star>>))
        d == parse_schedule(schedule)
    IN  [tbl EXCEPT ![name] =
            IF tbl[name].present
            THEN [tbl[name] EXCEPT !.schedule = schedule, !.next_run = d.val]
            ELSE [present |-> TRUE, schedule |-> schedule, next_run |-> d.val,
                  status |-> "scheduled", last_run |-> Null]]

\* parser.parse_schedule(schedule) raises inside the try block
JobRaises(job) ==
    parse_schedule(get(job, "schedule",
                       Join(<<Star, Star, Star, Star, Star>>))).exc # "none"

RECURSIVE UpsertAll(_, _)
UpsertAll(tbl, config) ==
    IF config = <<>> THEN tbl
    ELSE UpsertAll(Upsert(tbl, Head(config)), Tail(config))

config_jobs(config) ==
    {get(config[i], "name", NameUnnamed) : i \in DOMAIN config}

existing_jobs(tbl) == {n \in DOMAIN tbl : tbl[n].present}

DeleteRemoved(tbl, removed_jobs) ==
    [n \in DOMAIN tbl |-> IF n \in removed_jobs THEN NoJob ELSE tbl[n]]

SyncedTableKeepStale(tbl, config) == UpsertAll(tbl, config)

SyncedTable(tbl, config) ==
    DeleteRemoved(UpsertAll(tbl, config),
                  existing_jobs(tbl) \ config_jobs(config))

\* readable is FALSE when open() or json.load() raises
sync_jobs_from_config(config, readable) ==
    IF readable /\ \A i \in DOMAIN config : ~JobRaises(config[i])
    THEN /\ jobs' = SyncedTable(jobs, config)
         /\ synced_config' = config
         /\ last_op' = [op |-> "sync", rc |-> 0, arg |-> <<>>]
         /\ UNCHANGED <<job_executions, runs>>
    ELSE /\ last_op' = [op |-> "sync", rc |-> 1, arg |-> <<>>]
         /\ UNCHANGED storeVars

(***************************************************************************)
(* db_logger.py.  Each job-script run calls log_start, runs its command    *)
(* and calls log_end.  The fields run and ended_by of an execution record  *)
(* are not columns: they remember which run's calls wrote the record.      *)
(***************************************************************************)
log_start(r, job_name) ==
    /\ runs[r].pc = "idle"
    /\ job_executions' = Append(job_executions,
           [id |-> Len(job_executions) + 1, job_name |-> job_name,
            start_time |-> clock, end_time |-> Null,
            duration_seconds |-> Null, exit_code |-> Null,
            run |-> r, ended_by |-> 0])
    /\ jobs' = [jobs EXCEPT ![job_name] =
                   IF jobs[job_name].present
                   THEN [jobs[job_name] EXCEPT !.status = "running",
                                               !.last_run = clock]
                   ELSE jobs[job_name]]
    /\ runs' = [runs EXCEPT ![r] = [pc |-> "started", job |-> job_name]]
    /\ last_op' = [op |-> "log_start", rc |-> 0, arg |-> job_name]
    /\ UNCHANGED synced_config

\* the rows of SELECT ... WHERE job_name = ? AND end_time IS NULL
Pending(job_name) ==
    {i \in DOMAIN job_executions :
        /\ job_executions[i].job_name = job_name
        /\ job_executions[i].end_time = Null}

\* ORDER BY start_time DESC LIMIT 1: any row with the greatest start_time
MostRecentPending(job_name) ==
    {i \in Pending(job_name) :
        \A k \in Pending(job_name) :
            job_executions[k].start_time <= job_executions[i].start_time}

OwnPending(r, job_name) ==
    {i \in Pending(job_name) : job_executions[i].run = r}

log_end(r, exit_code) ==
    /\ runs[r].pc = "started"
    /\ runs' = [runs EXCEPT ![r].pc = "ended"]
    /\ LET job_name == runs[r].job IN
       IF Pending(job_name) # {}
       THEN \E i \in MostRecentPending(job_name) :
              /\ job_executions' = [job_executions EXCEPT ![i] =
                     [@ EXCEPT !.end_time = clock,
                               !.duration_seconds =
                                   clock - job_executions[i].start_time,
                               !.exit_code = exit_code,
                               !.ended_by = r]]
              /\ jobs' = [jobs EXCEPT ![job_name] =
                     IF jobs[job_name].present
                     THEN [jobs[job_name] EXCEPT !.status =
                              IF exit_code = 0 THEN "completed" ELSE "failed"]
                     ELSE jobs[job_name]]
              /\ last_op' = [op |-> "log_end", rc |-> 0, arg |-> job_name]
       ELSE /\ last_op' = [op |-> "log_end", rc |-> 1, arg |-> job_name]
            /\ UNCHANGED <<jobs, job_executions>>
    /\ UNCHANGED synced_config

(***************************************************************************)
(* Syncs interleaved with the log calls of the job scripts.  The columns   *)
(* command, image, container and comment are copied from the configuration *)
(* and read by nothing here, so they are left out of the rows.             *)
(***************************************************************************)
\* a configuration file lists at most MaxConfigJobs jobs
MaxConfigJobs == 2

\* at most MaxSyncRuns job-script runs log between the syncs
MaxSyncRuns == 1

ConfigJobs ==
    {[name |-> NameA,
      schedule |-> Join(<<StepPrefix \o <<"5">>, Star, Star, Star, Star>>)],
     [name |-> NameA, schedule |-> AtHourly],
     [name |-> NameB,
      schedule |-> <<" ">> \o Join(<<Zero, <<"2">>, Star, Star, Star>>)],
     [name |-> NameB,
      schedule |-> Join(<<StepPrefix \o <<"x">>, Star, Star, Star, Star>>)],
     [name |-> Missing, schedule |-> Missing]}

Configs ==
    UNION {[1..n -> ConfigJobs] : n \in 0..MaxConfigJobs}

RunJobs == {NameA, NameB}

ExitCodes == {0, 1}

ParserIdle ==
    /\ schedule_str = <<>>
    /\ from_time = NoneTime
    /\ description = NotCalledStr
    /\ next_run = NotCalledTime

InitSync == ParserIdle /\ StoreInit

SyncJobs ==
    /\ \E config \in Configs, readable \in BOOLEAN :
          sync_jobs_from_config(config, readable)
    /\ UNCHANGED <<parserVars, triggerVars, clock>>

LogStart(R) ==
    /\ \E r \in R, job_name \in RunJobs : log_start(r, job_name)
    /\ UNCHANGED <<parserVars, triggerVars, clock>>

LogEnd(R) ==
    /\ \E r \in R, exit_code \in ExitCodes : log_end(r, exit_code)
    /\ UNCHANGED <<parserVars, triggerVars, clock>>

NextSync ==
    \/ SyncJobs
    \/ LogStart(1..MaxSyncRuns)
    \/ LogEnd(1..MaxSyncRuns)

SpecSync == InitSync /\ [][NextSync]_vars

(***************************************************************************)
(* C13  After any sequence of syncs and job start/end log events, the jobs *)
(* table holds exactly the job names of the most recently successfully     *)
(* synced configuration, each with next_run equal to the description of    *)
(* the schedule that configuration gives it (the last entry of that name); *)
(* a sync that fails returns 1 and leaves the jobs table as it was.        *)
(***************************************************************************)
\* the schedule the configuration gives to name n: its last entry wins
ScheduleOf(config, n) ==
    LET places == {i \in DOMAIN config :
                      get(config[i], "name", NameUnnamed) = n}
        last == CHOOSE i \in places : \A k \in places : k <= i
    IN  get(config[last], "schedule", Join(<<Star, Star, Star, Star, Star>>))

C13_TableMatchesConfig ==
    /\ existing_jobs(jobs) = config_jobs(synced_config)
    /\ \A n \in existing_jobs(jobs) :
          /\ jobs[n].schedule = ScheduleOf(synced_config, n)
          /\ Return(jobs[n].next_run) =
                 parse_schedule(ScheduleOf(synced_config, n))

C13_FailedSyncKeepsTable ==
    (last_op'.op = "sync" /\ last_op'.rc = 1) => jobs' = jobs

C13_JobsTableFollowsLastSync ==
    /\ []C13_TableMatchesConfig
    /\ [][C13_FailedSyncKeepsTable]_vars

\* a second sync removed b, changed a's schedule and added the unnamed job
\* while a run of a was logged, and a later sync failed
C13_Witness ==
    /\ last_op = [op |-> "sync", rc |-> 1, arg |-> <<>>]
    /\ existing_jobs(jobs) = {NameA, NameUnnamed}
    /\ jobs[NameA].schedule = AtHourly
    /\ jobs[NameA].next_run = StrCron \o SHORTCUTS[AtHourly]
    /\ jobs[NameA].status = "completed"
    /\ jobs[NameUnnamed].next_run = StrEveryMinute
    /\ Len(job_executions) > 0

(***************************************************************************)
(* The log calls of overlapping runs, on a store that a sync has filled.   *)
(* The timestamps are the clock read by the job script, in whole seconds.  *)
(***************************************************************************)
\* the clock runs from 0 to MaxClock seconds
MaxClock == 2

LoggerConfig ==
    <<[name |-> NameA, schedule |-> AtHourly],
      [name |-> NameB, schedule |-> AtDaily]>>

InitLogger ==
    /\ ParserIdle
    /\ jobs = SyncedTable(EmptyJobs, LoggerConfig)
    /\ synced_config = LoggerConfig
    /\ job_executions = <<>>
    /\ runs = [r \in Runs |-> IdleRun]
    /\ clock = 0
    /\ rate_limit = <<>>
    /\ launched = <<>>
    /\ last_op = [op |-> "sync", rc |-> 0, arg |-> <<>>]

\* dt seconds pass
Tick(dt, limit) ==
    /\ clock + dt <= limit
    /\ clock' = clock + dt
    /\ last_op' = [op |-> "tick", rc |-> 0, arg |-> <<>>]
    /\ UNCHANGED <<parserVars, storeVars, triggerVars>>

NextLogger ==
    \/ LogStart(Runs)
    \/ LogEnd(Runs)
    \/ Tick(1, MaxClock)

SpecLogger == InitLogger /\ [][NextLogger]_vars

(***************************************************************************)
(* C15  Under every interleaving of the log_start and log_end calls of     *)
(* runs of the same job, each log_end fills the execution record that its  *)
(* own run's log_start created; the job's status is 'running' exactly      *)
(* while a record of the job has no end_time; and once all have ended the  *)
(* status is 'completed' if the run that ended last exited with 0 and      *)
(* 'failed' otherwise.                                                     *)
(***************************************************************************)
Ended(job_name) ==
    {i \in DOMAIN job_executions :
        /\ job_executions[i].job_name = job_name
        /\ job_executions[i].end_time # Null}

LastEnded(job_name) ==
    {i \in Ended(job_name) :
        \A k \in Ended(job_name) :
            job_executions[k].end_time <= job_executions[i].end_time}

C15_OwnRecordFilled ==
    \A i \in DOMAIN job_executions :
        job_executions[i].ended_by # 0 =>
            job_executions[i].ended_by = job_executions[i].run

C15_RunningWhilePending ==
    \A n \in existing_jobs(jobs) :
        jobs[n].status = "running" <=> Pending(n) # {}

C15_StatusOfLastEnded ==
    \A n \in existing_jobs(jobs) :
        (Pending(n) = {} /\ Ended(n) # {}) =>
            \E i \in LastEnded(n) :
                jobs[n].status = IF job_executions[i].exit_code = 0
                                 THEN "completed" ELSE "failed"

C15_OverlappingRunsLogged ==
    /\ C15_OwnRecordFilled
    /\ C15_RunningWhilePending
    /\ C15_StatusOfLastEnded

(***************************************************************************)
(* app.py, api_trigger_job.  The server runs with threaded=False, so the   *)
(* requests are handled one at a time; launched lists the job scripts      *)
(* started by subprocess.Popen with the time of the request.               *)
(***************************************************************************)
Lower ==
    {"a", "b", "c", "d", "e", "f", "g", "h", "i", "j", "k", "l", "m",
     "n", "o", "p", "q", "r", "s", "t", "u", "v", "w", "x", "y", "z"}

Upper ==
    {"A", "B", "C", "D", "E", "F", "G", "H", "I", "J", "K", "L", "M",
     "N", "O", "P", "Q", "R", "S", "T", "U", "V", "W", "X", "Y", "Z"}

NameChars == Lower \cup Upper \cup Digits \cup {"_", "-"}

\* re.match(r'^[a-zA-Z0-9_-]+$', job_name): $ also matches before a final "\n"
validate_job_name(job_name) ==
    LET body == IF job_name # <<>> /\ job_name[Len(job_name)] = "\n"
                THEN SubSeq(job_name, 1, Len(job_name) - 1)
                ELSE job_name
    IN  IF body # <<>> /\ \A i \in DOMAIN body : body[i] \in NameChars
        THEN Return(job_name)
        ELSE RaiseStr("ValueError")

\* models.get_job(job_name) is not None
get_job(job_name) == job_name \in DOMAIN jobs /\ jobs[job_name].present

\* api_trigger_job.rate_limit.get(job_name, [])
rate_limit_get(job_name) ==
    IF job_name \in DOMAIN rate_limit THEN rate_limit[job_name] ELSE <<>>

\* the window and the limit of the 'Last minute' filter
RateWindow == 60

RateMax == 5

LimitExceededAbove(job_triggers) == Len(job_triggers) > RateMax

LimitExceeded(job_triggers) == Len(job_triggers) >= RateMax

Response(code, job_name) == [op |-> "trigger", rc |-> code, arg |-> job_name]

\* env is what the file system and Popen do with /opt/crontab/jobs/<name>.sh
api_trigger_job(job_name, env) ==
    LET now == clock
        job_triggers == SelectSeq(rate_limit_get(job_name),
                                  LAMBDA t : now - t < RateWindow)
    IN  IF LimitExceeded(job_triggers)
        THEN /\ last_op' = Response(429, job_name)
             /\ UNCHANGED triggerVars
        ELSE IF validate_job_name(job_name).exc # "none"
        THEN /\ last_op' = Response(400, job_name)
             /\ UNCHANGED triggerVars
        ELSE IF ~get_job(job_name)
        THEN /\ last_op' = Response(404, job_name)
             /\ UNCHANGED triggerVars
        ELSE IF env = "outside_jobs_dir"
        THEN /\ last_op' = Response(400, job_name)
             /\ UNCHANGED triggerVars
        ELSE IF env = "no_script"
        THEN /\ last_op' = Response(404, job_name)
             /\ UNCHANGED triggerVars
        ELSE IF env = "popen_raises"
        THEN /\ last_op' = Response(500, job_name)
             /\ UNCHANGED triggerVars
        ELSE /\ launched' = Append(launched, [job |-> job_name, time |-> now])
             /\ rate_limit' =
                    [n \in DOMAIN rate_limit \cup {job_name} |->
                        IF n = job_name THEN Append(job_triggers, now)
                        ELSE rate_limit[n]]
             /\ last_op' = Response(200, job_name)

\* at most MaxLaunched scripts are started
MaxLaunched == 7

\* the clock runs from 0 to MaxTime seconds, in steps of TimeSteps
MaxTime == 60

TimeSteps == {30}

\* two jobs of the store, a well-formed name of no job, a name with a dot
\* and a name that ends in a line feed
RequestNames ==
    {NameA, NameB, <<"g">>, <<"a", ".", "b">>, <<"a", "\n">>}

ScriptEnvs == {"ok", "outside_jobs_dir", "no_script", "popen_raises"}

InitTrigger == InitLogger

TriggerJob ==
    /\ Len(launched) < MaxLaunched
    /\ \E job_name \in RequestNames, env \in ScriptEnvs :
          api_trigger_job(job_name, env)
    /\ UNCHANGED <<parserVars, storeVars, clock>>

NextTrigger ==
    \/ TriggerJob
    \/ \E dt \in TimeSteps : Tick(dt, MaxTime)

SpecTrigger == InitTrigger /\ [][NextTrigger]_vars

(***************************************************************************)
(* C14  For every job name and every sequence of trigger requests at       *)
(* non-decreasing times, at most 5 requests are accepted (script launched) *)
(* within any 60-second window (t - 60, t]; a request arriving when 5      *)
(* accepted triggers lie in the last 60 seconds is answered 429, launches  *)
(* nothing and leaves the recorded trigger times unchanged; a request      *)
(* rejected for another reason (invalid name, unknown job, missing script) *)
(* does not count toward the limit.                                        *)
(***************************************************************************)
\* the accepted triggers of job_name in the 60 seconds that end at time t
AcceptedInWindow(job_name, t) ==
    {i \in DOMAIN launched :
        /\ launched[i].job = job_name
        /\ t - 60 < launched[i].time
        /\ launched[i].time <= t}

C14_AtMostFivePerWindow ==
    \A job_name \in RequestNames, t \in 0..clock :
        Cardinality(AcceptedInWindow(job_name, t)) <= 5

\* a step that handles a request: every other step sets another last_op
C14_RequestStep ==
    LET job_name == last_op'.arg
        full == Cardinality(AcceptedInWindow(job_name, clock)) >= 5
    IN  last_op'.op = "trigger" =>
          /\ full => last_op'.rc = 429
          /\ last_op'.rc = 429 => full /\ UNCHANGED <<rate_limit, launched>>
          /\ last_op'.rc \in {400, 404, 500} =>
                UNCHANGED <<rate_limit, launched>>
          /\ last_op'.rc = 200 =>
                launched' = Append(launched,
                                   [job |-> job_name, time |-> clock])

C14_RateLimit ==
    /\ []C14_AtMostFivePerWindow
    /\ [][C14_RequestStep]_vars

\* one trigger of a at second 0 and four at second 30 were accepted, the
\* one of second 0 had left the window at second 60 so that one more was
\* accepted, and the next request at second 60 is answered 429
C14_Witness ==
    /\ last_op = Response(429, NameA)
    /\ clock = 60
    /\ Cardinality(AcceptedInWindow(NameA, 0)) = 1
    /\ Cardinality(AcceptedInWindow(NameA, 30)) = 5
    /\ Cardinality(AcceptedInWindow(NameA, 60)) = 5
    /\ Cardinality(AcceptedInWindow(NameB, 60)) = 0

====
